---------------------------- MODULE Spec2Model ----------------------------
(***************************************************************************)
(* Pricing and validation core of the gym membership system:               *)
(*   validators.py   MembershipValidator, FeatureValidator,                *)
(*                   FeatureListValidator                                  *)
(*   modifiers.py    PremiumSurchargeModifier, GroupDiscountModifier,      *)
(*                   SpecialOfferModifier, PriceModifierChain              *)
(*   gym_membership.py  GymMembershipSystem                                *)
(*   factories.py    the shipped catalog                                   *)
(*                                                                         *)
(* A key (a Python str) is a sequence of one-character strings, so that    *)
(* str.lower() is a computation on the characters.  Display names and the  *)
(* fixed parts of messages are plain strings: the code never converts them.*)
(***************************************************************************)
EXTENDS Integers, Sequences, FiniteSets, TLC

VARIABLES
    membership_plans,   \* GymMembershipSystem.membership_plans: key -> plan record
    features,           \* GymMembershipSystem.features: key -> feature record
    req,                \* the arguments the caller holds for its calls
    res,                \* the step just taken: the call made and what it returned
    context,            \* the context dict of the last pricing call that built one
    earlier             \* the call made before the one in res, where a caller's
                        \* calls are followed from one to the next

vars == <<membership_plans, features, req, res, context, earlier>>

---------------------------------------------------------------------------
(* Bounds of the model *)

\* longest feature list a caller passes
MaxFeatures == 2

\* largest subtotal of a context passed to the chain by itself
MaxSubtotal == 450

\* longest feature list to which one more feature is added
MaxListed == 5

---------------------------------------------------------------------------
(* str.lower() *)

UpperCaseLetters ==
    <<"A", "B", "C", "D", "E", "F", "G", "H", "I", "J", "K", "L", "M",
      "N", "O", "P", "Q", "R", "S", "T", "U", "V", "W", "X", "Y", "Z">>

LowerCaseLetters ==
    <<"a", "b", "c", "d", "e", "f", "g", "h", "i", "j", "k", "l", "m",
      "n", "o", "p", "q", "r", "s", "t", "u", "v", "w", "x", "y", "z">>

\* the lower-case letter of each upper-case letter
LowerTable ==
    [c \in {UpperCaseLetters[i] : i \in 1..26} |->
        LowerCaseLetters[CHOOSE i \in 1..26 : UpperCaseLetters[i] = c]]

LowerChar(c) == IF c \in DOMAIN LowerTable THEN LowerTable[c] ELSE c

\* value.lower(): every upper-case letter replaced, all else kept
Lower(s) == [i \in 1..Len(s) |-> LowerChar(s[i])]

---------------------------------------------------------------------------
(* The shipped catalog (factories.py) *)

K_basic == <<"b", "a", "s", "i", "c">>
K_premium == <<"p", "r", "e", "m", "i", "u", "m">>
K_family == <<"f", "a", "m", "i", "l", "y">>
K_personal_training ==
    <<"p", "e", "r", "s", "o", "n", "a", "l", "_",
      "t", "r", "a", "i", "n", "i", "n", "g">>
K_group_classes ==
    <<"g", "r", "o", "u", "p", "_", "c", "l", "a", "s", "s", "e", "s">>
K_exclusive_facilities ==
    <<"e", "x", "c", "l", "u", "s", "i", "v", "e", "_",
      "f", "a", "c", "i", "l", "i", "t", "i", "e", "s">>
K_specialized_training ==
    <<"s", "p", "e", "c", "i", "a", "l", "i", "z", "e", "d", "_",
      "t", "r", "a", "i", "n", "i", "n", "g">>
K_nutrition_plan ==
    <<"n", "u", "t", "r", "i", "t", "i", "o", "n", "_", "p", "l", "a", "n">>
K_spa_access == <<"s", "p", "a", "_", "a", "c", "c", "e", "s", "s">>

\* FeatureType
STANDARD == "standard"
PREMIUM == "premium"

\* MembershipPlan(name, cost, benefits, available=True); the benefits are
\* display text that no validation or pricing code reads
MembershipPlan(name, cost) ==
    [name |-> name, cost |-> cost, available |-> TRUE]

\* AdditionalFeature(name, cost, feature_type, available=True)
AdditionalFeature(name, cost, feature_type) ==
    [name |-> name, cost |-> cost, feature_type |-> feature_type,
     available |-> TRUE]

\* the key order of the plan dict (dicts keep insertion order)
PlanKeyOrder == <<K_basic, K_premium, K_family>>

\* the key order of the feature dict
FeatureKeyOrder ==
    <<K_personal_training, K_group_classes, K_exclusive_facilities,
      K_specialized_training, K_nutrition_plan, K_spa_access>>

PlanKeys == {PlanKeyOrder[i] : i \in 1..Len(PlanKeyOrder)}
FeatureKeys == {FeatureKeyOrder[i] : i \in 1..Len(FeatureKeyOrder)}

MembershipFactory_create_all ==
    [k \in PlanKeys |->
        CASE k = K_basic -> MembershipPlan("Basic", 50)
          [] k = K_premium -> MembershipPlan("Premium", 100)
          [] k = K_family -> MembershipPlan("Family", 150)]

FeatureFactory_create_all ==
    [k \in FeatureKeys |->
        CASE k = K_personal_training ->
                AdditionalFeature("Personal Training Sessions", 60, STANDARD)
          [] k = K_group_classes ->
                AdditionalFeature("Group Classes", 30, STANDARD)
          [] k = K_exclusive_facilities ->
                AdditionalFeature("Exclusive Facilities Access", 80, PREMIUM)
          [] k = K_specialized_training ->
                AdditionalFeature("Specialized Training Programs", 100, PREMIUM)
          [] k = K_nutrition_plan ->
                AdditionalFeature("Custom Nutrition Plan", 40, STANDARD)
          [] k = K_spa_access ->
                AdditionalFeature("Spa and Wellness Access", 70, PREMIUM)]

---------------------------------------------------------------------------
(* validators.py *)

\* Python's None in the error position of a validation result
None == [kind |-> "None", text |-> "", value |-> <<>>, name |-> "",
         options |-> <<>>]

\* ', '.join(registry.keys()): the keys in dict order
registry_keys(registry, order) ==
    SelectSeq(order, LAMBDA k : k \in DOMAIN registry)

\* f"Invalid membership: {value}. Choose: {options}"
InvalidMembershipError(value, options) ==
    [kind |-> "NotFound", text |-> "Invalid membership: {value}. Choose: {options}",
     value |-> value, name |-> "", options |-> options]

\* f"Membership '{plan.name}' is unavailable."
MembershipUnavailableError(name) ==
    [kind |-> "Unavailable", text |-> "Membership '{plan.name}' is unavailable.",
     value |-> <<>>, name |-> name, options |-> <<>>]

\* f"Invalid feature: {value}."
InvalidFeatureError(value) ==
    [kind |-> "NotFound", text |-> "Invalid feature: {value}.",
     value |-> value, name |-> "", options |-> <<>>]

\* f"Feature '{feature.name}' is unavailable."
FeatureUnavailableError(name) ==
    [kind |-> "Unavailable", text |-> "Feature '{feature.name}' is unavailable.",
     value |-> <<>>, name |-> name, options |-> <<>>]

\* variant: the key is looked up as given, without .lower()
MembershipValidator_validate_as_given(value, registry) ==
    LET key == value IN
    IF key \notin DOMAIN registry
    THEN [ok |-> FALSE,
          error |-> InvalidMembershipError(value,
                        registry_keys(registry, PlanKeyOrder))]
    ELSE IF ~registry[key].available
    THEN [ok |-> FALSE, error |-> MembershipUnavailableError(registry[key].name)]
    ELSE [ok |-> TRUE, error |-> None]

\* variant: the availability flag is not looked at
MembershipValidator_validate_any_flag(value, registry) ==
    LET key == Lower(value) IN
    IF key \notin DOMAIN registry
    THEN [ok |-> FALSE,
          error |-> InvalidMembershipError(value,
                        registry_keys(registry, PlanKeyOrder))]
    ELSE [ok |-> TRUE, error |-> None]

\* variant: the flag is the one the record had when the catalog was built
MembershipValidator_validate_flag_as_built(value, registry) ==
    LET key == Lower(value) IN
    IF key \notin DOMAIN registry
    THEN [ok |-> FALSE,
          error |-> InvalidMembershipError(value,
                        registry_keys(registry, PlanKeyOrder))]
    ELSE IF ~MembershipFactory_create_all[key].available
    THEN [ok |-> FALSE, error |-> MembershipUnavailableError(registry[key].name)]
    ELSE [ok |-> TRUE, error |-> None]

MembershipValidator_validate(value, registry) ==
    LET key == Lower(value) IN
    IF key \notin DOMAIN registry
    THEN [ok |-> FALSE,
          error |-> InvalidMembershipError(value,
                        registry_keys(registry, PlanKeyOrder))]
    ELSE IF ~registry[key].available
    THEN [ok |-> FALSE, error |-> MembershipUnavailableError(registry[key].name)]
    ELSE [ok |-> TRUE, error |-> None]

\* variant: the availability test without its "not"
FeatureValidator_validate_flag_inverted(value, registry) ==
    LET key == Lower(value) IN
    IF key \notin DOMAIN registry
    THEN [ok |-> FALSE, error |-> InvalidFeatureError(value)]
    ELSE IF registry[key].available
    THEN [ok |-> FALSE, error |-> FeatureUnavailableError(registry[key].name)]
    ELSE [ok |-> TRUE, error |-> None]

FeatureValidator_validate(value, registry) ==
    LET key == Lower(value) IN
    IF key \notin DOMAIN registry
    THEN [ok |-> FALSE, error |-> InvalidFeatureError(value)]
    ELSE IF ~registry[key].available
    THEN [ok |-> FALSE, error |-> FeatureUnavailableError(registry[key].name)]
    ELSE [ok |-> TRUE, error |-> None]

\* variant: on a failure the keys accepted so far are returned
RECURSIVE FeatureListLoop_partial(_, _, _, _)
FeatureListLoop_partial(feature_keys, i, valid_keys, registry) ==
    IF i > Len(feature_keys)
    THEN [ok |-> TRUE, error |-> None, valid_keys |-> valid_keys]
    ELSE LET r == FeatureValidator_validate(feature_keys[i], registry) IN
         IF ~r.ok
         THEN [ok |-> FALSE, error |-> r.error, valid_keys |-> valid_keys]
         ELSE FeatureListLoop_partial(feature_keys, i + 1,
                                      Append(valid_keys, Lower(feature_keys[i])),
                                      registry)

\* variant: a key already accepted is not appended a second time
RECURSIVE FeatureListLoop_distinct(_, _, _, _)
FeatureListLoop_distinct(feature_keys, i, valid_keys, registry) ==
    IF i > Len(feature_keys)
    THEN [ok |-> TRUE, error |-> None, valid_keys |-> valid_keys]
    ELSE LET r == FeatureValidator_validate(feature_keys[i], registry) IN
         IF ~r.ok
         THEN [ok |-> FALSE, error |-> r.error, valid_keys |-> <<>>]
         ELSE FeatureListLoop_distinct(feature_keys, i + 1,
                 IF \E j \in 1..Len(valid_keys) :
                        valid_keys[j] = Lower(feature_keys[i])
                 THEN valid_keys
                 ELSE Append(valid_keys, Lower(feature_keys[i])),
                 registry)

\* variant: the loop goes on after a failure and reports the last one
RECURSIVE FeatureListLoop_last_error(_, _, _, _)
FeatureListLoop_last_error(feature_keys, i, valid_keys, registry) ==
    IF i > Len(feature_keys)
    THEN [ok |-> TRUE, error |-> None, valid_keys |-> valid_keys]
    ELSE LET r == FeatureValidator_validate(feature_keys[i], registry) IN
         IF ~r.ok
         THEN LET rest == FeatureListLoop_last_error(feature_keys, i + 1,
                                                     <<>>, registry)
              IN IF rest.ok
                 THEN [ok |-> FALSE, error |-> r.error, valid_keys |-> <<>>]
                 ELSE rest
         ELSE FeatureListLoop_last_error(feature_keys, i + 1,
                 Append(valid_keys, Lower(feature_keys[i])), registry)

\* the for loop of FeatureListValidator.validate, from index i on
RECURSIVE FeatureListLoop(_, _, _, _)
FeatureListLoop(feature_keys, i, valid_keys, registry) ==
    IF i > Len(feature_keys)
    THEN [ok |-> TRUE, error |-> None, valid_keys |-> valid_keys]
    ELSE LET r == FeatureValidator_validate(feature_keys[i], registry) IN
         IF ~r.ok
         THEN [ok |-> FALSE, error |-> r.error, valid_keys |-> <<>>]
         ELSE FeatureListLoop(feature_keys, i + 1,
                              Append(valid_keys, Lower(feature_keys[i])),
                              registry)

FeatureListValidator_validate(feature_keys, registry) ==
    FeatureListLoop(feature_keys, 1, <<>>, registry)

---------------------------------------------------------------------------
(* modifiers.py *)

\* variant: rounding to the nearest integer instead of truncating
IntOfPercent_rounded(x, p) == (x * p + 50) \div 100

\* int(x * p/100) of a float product: truncation toward zero.  For every
\* integer 0 <= x < 5000 the double products x * 0.15 and x * 0.10 truncate
\* to the exact integer quotient.
IntOfPercent(x, p) ==
    IF x >= 0 THEN (x * p) \div 100 ELSE -(((-x) * p) \div 100)

SurchargePercent == 15
GroupPercent == 10
GroupMinSize == 2
OfferLowThreshold == 200
OfferHighThreshold == 400
OfferLowAmount == 20
OfferHighAmount == 50

\* dict.get(key, default)
Get(d, key, default) == IF key \in DOMAIN d THEN d[key] ELSE default

\* a message: the f-string's fixed text and the values formatted into it
Msg(text, args) == [text |-> text, args |-> args]
EmptyMsg == Msg("", <<>>)

PremiumSurchargeModifier_can_apply(ctx) ==
    Get(ctx, "has_premium_features", FALSE)

PremiumSurchargeModifier_apply(ctx) ==
    LET subtotal == Get(ctx, "subtotal", 0)
        surcharge == IntOfPercent(subtotal, SurchargePercent)
    IN [amount |-> surcharge,
        msg |-> Msg("Premium features surcharge (15%): +${surcharge}",
                    <<surcharge>>)]

\* context.get('subtotal_with_surcharge', context.get('subtotal', 0))
CostBase(ctx) ==
    Get(ctx, "subtotal_with_surcharge", Get(ctx, "subtotal", 0))

GroupDiscountModifier_can_apply(ctx) ==
    Get(ctx, "group_size", 1) >= GroupMinSize

\* variant: the percentage is taken of the raw subtotal
GroupDiscountModifier_apply_raw(ctx) ==
    LET cost == Get(ctx, "subtotal", 0)
        group_size == Get(ctx, "group_size", 1)
        discount == IntOfPercent(cost, GroupPercent)
    IN [amount |-> discount,
        msg |-> Msg("Group discount (10% for {group_size}): -${discount}",
                    <<group_size, discount>>)]

\* variant: 10 off for each member of the group instead of 10 percent
GroupDiscountModifier_apply_per_member(ctx) ==
    LET cost == CostBase(ctx)
        group_size == Get(ctx, "group_size", 1)
        discount == GroupPercent * group_size
    IN [amount |-> discount,
        msg |-> Msg("Group discount (10% for {group_size}): -${discount}",
                    <<group_size, discount>>)]

GroupDiscountModifier_apply(ctx) ==
    LET cost == CostBase(ctx)
        group_size == Get(ctx, "group_size", 1)
        discount == IntOfPercent(cost, GroupPercent)
    IN [amount |-> discount,
        msg |-> Msg("Group discount (10% for {group_size}): -${discount}",
                    <<group_size, discount>>)]

SpecialOfferModifier_can_apply(ctx) ==
    CostBase(ctx) > OfferLowThreshold

\* variant: the tiers start at their thresholds (>= for >)
SpecialOfferModifier_apply_inclusive(ctx) ==
    LET cost == CostBase(ctx) IN
    IF cost >= OfferHighThreshold
    THEN [amount |-> OfferHighAmount, msg |-> Msg("Special offer (>$400): -$50", <<>>)]
    ELSE IF cost >= OfferLowThreshold
    THEN [amount |-> OfferLowAmount, msg |-> Msg("Special offer (>$200): -$20", <<>>)]
    ELSE [amount |-> 0, msg |-> EmptyMsg]

\* variant: the amounts of the two tiers are exchanged
SpecialOfferModifier_apply_exchanged(ctx) ==
    LET cost == CostBase(ctx) IN
    IF cost > OfferHighThreshold
    THEN [amount |-> OfferLowAmount, msg |-> Msg("Special offer (>$400): -$50", <<>>)]
    ELSE IF cost > OfferLowThreshold
    THEN [amount |-> OfferHighAmount, msg |-> Msg("Special offer (>$200): -$20", <<>>)]
    ELSE [amount |-> 0, msg |-> EmptyMsg]

SpecialOfferModifier_apply(ctx) ==
    LET cost == CostBase(ctx) IN
    IF cost > OfferHighThreshold
    THEN [amount |-> OfferHighAmount, msg |-> Msg("Special offer (>$400): -$50", <<>>)]
    ELSE IF cost > OfferLowThreshold
    THEN [amount |-> OfferLowAmount, msg |-> Msg("Special offer (>$200): -$20", <<>>)]
    ELSE [amount |-> 0, msg |-> EmptyMsg]

\* the modifier classes, by name
PremiumSurcharge == "PremiumSurchargeModifier"
GroupDiscount == "GroupDiscountModifier"
SpecialOffer == "SpecialOfferModifier"

can_apply(modifier, ctx) ==
    CASE modifier = PremiumSurcharge -> PremiumSurchargeModifier_can_apply(ctx)
      [] modifier = GroupDiscount -> GroupDiscountModifier_can_apply(ctx)
      [] modifier = SpecialOffer -> SpecialOfferModifier_can_apply(ctx)

apply(modifier, ctx) ==
    CASE modifier = PremiumSurcharge -> PremiumSurchargeModifier_apply(ctx)
      [] modifier = GroupDiscount -> GroupDiscountModifier_apply(ctx)
      [] modifier = SpecialOffer -> SpecialOfferModifier_apply(ctx)

\* the results dict apply_all starts from
InitialResults ==
    [premium_surcharge |-> 0, premium_msg |-> EmptyMsg,
     group_discount |-> 0, group_msg |-> EmptyMsg,
     special_discount |-> 0, special_msg |-> EmptyMsg]

\* d with d[key] = value, key added when absent
Put(d, key, value) ==
    [k \in DOMAIN d \cup {key} |-> IF k = key THEN value ELSE d[k]]

\* variant: the surcharged subtotal is not written into the context
ApplyOne_nothing_written(modifier, results, ctx) ==
    IF ~can_apply(modifier, ctx)
    THEN [results |-> results, context |-> ctx]
    ELSE LET r == apply(modifier, ctx) IN
         CASE modifier = PremiumSurcharge ->
                [results |-> [results EXCEPT !.premium_surcharge = r.amount,
                                             !.premium_msg = r.msg],
                 context |-> ctx]
           [] modifier = GroupDiscount ->
                [results |-> [results EXCEPT !.group_discount = r.amount,
                                             !.group_msg = r.msg],
                 context |-> ctx]
           [] modifier = SpecialOffer ->
                [results |-> [results EXCEPT !.special_discount = r.amount,
                                             !.special_msg = r.msg],
                 context |-> ctx]

\* variant: the group discount is taken off the cost the context carries on
ApplyOne_group_taken_off(modifier, results, ctx) ==
    IF ~can_apply(modifier, ctx)
    THEN [results |-> results, context |-> ctx]
    ELSE LET r == apply(modifier, ctx) IN
         CASE modifier = PremiumSurcharge ->
                [results |-> [results EXCEPT !.premium_surcharge = r.amount,
                                             !.premium_msg = r.msg],
                 context |-> Put(ctx, "subtotal_with_surcharge",
                                 Get(ctx, "subtotal", 0) + r.amount)]
           [] modifier = GroupDiscount ->
                [results |-> [results EXCEPT !.group_discount = r.amount,
                                             !.group_msg = r.msg],
                 context |-> Put(ctx, "subtotal_with_surcharge",
                                 CostBase(ctx) - r.amount)]
           [] modifier = SpecialOffer ->
                [results |-> [results EXCEPT !.special_discount = r.amount,
                                             !.special_msg = r.msg],
                 context |-> ctx]

\* variant: apply is called without asking can_apply
ApplyOne_not_asked(modifier, results, ctx) ==
    LET r == apply(modifier, ctx) IN
    CASE modifier = PremiumSurcharge ->
           [results |-> [results EXCEPT !.premium_surcharge = r.amount,
                                        !.premium_msg = r.msg],
            context |-> Put(ctx, "subtotal_with_surcharge",
                            Get(ctx, "subtotal", 0) + r.amount)]
      [] modifier = GroupDiscount ->
           [results |-> [results EXCEPT !.group_discount = r.amount,
                                        !.group_msg = r.msg],
            context |-> ctx]
      [] modifier = SpecialOffer ->
           [results |-> [results EXCEPT !.special_discount = r.amount,
                                        !.special_msg = r.msg],
            context |-> ctx]

\* one iteration of the loop of apply_all: the results and the context after it
ApplyOne(modifier, results, ctx) ==
    IF ~can_apply(modifier, ctx)
    THEN [results |-> results, context |-> ctx]
    ELSE LET r == apply(modifier, ctx) IN
         CASE modifier = PremiumSurcharge ->
                [results |-> [results EXCEPT !.premium_surcharge = r.amount,
                                             !.premium_msg = r.msg],
                 context |-> Put(ctx, "subtotal_with_surcharge",
                                 Get(ctx, "subtotal", 0) + r.amount)]
           [] modifier = GroupDiscount ->
                [results |-> [results EXCEPT !.group_discount = r.amount,
                                             !.group_msg = r.msg],
                 context |-> ctx]
           [] modifier = SpecialOffer ->
                [results |-> [results EXCEPT !.special_discount = r.amount,
                                             !.special_msg = r.msg],
                 context |-> ctx]

\* the loop of apply_all from modifier i on
RECURSIVE ApplyLoop(_, _, _, _)
ApplyLoop(modifiers, i, results, ctx) ==
    IF i > Len(modifiers)
    THEN [results |-> results, context |-> ctx]
    ELSE LET s == ApplyOne(modifiers[i], results, ctx) IN
         ApplyLoop(modifiers, i + 1, s.results, s.context)

\* PriceModifierChain(modifiers).apply_all(context): the results it returns
\* and the context dict as the call leaves it
apply_all(modifiers, ctx) == ApplyLoop(modifiers, 1, InitialResults, ctx)

---------------------------------------------------------------------------
(* gym_membership.py *)

\* self.modifier_chain, in the order __init__ builds it
modifier_chain == <<PremiumSurcharge, GroupDiscount, SpecialOffer>>

validate_membership(key, plans) == MembershipValidator_validate(key, plans)

validate_features(keys, feats) == FeatureListValidator_validate(keys, feats)

\* variant: a key that came before in the list is not counted again
RECURSIVE SumCosts_distinct(_, _, _)
SumCosts_distinct(feature_keys, i, feats) ==
    IF i > Len(feature_keys) THEN 0
    ELSE (IF \E j \in 1..(i - 1) : feature_keys[j] = feature_keys[i]
          THEN 0 ELSE feats[feature_keys[i]].cost)
         + SumCosts_distinct(feature_keys, i + 1, feats)

RECURSIVE SumCosts(_, _, _)
\* sum(self.features[f].cost for f in feature_keys), from index i on
SumCosts(feature_keys, i, feats) ==
    IF i > Len(feature_keys) THEN 0
    ELSE feats[feature_keys[i]].cost + SumCosts(feature_keys, i + 1, feats)

calculate_base_costs(membership_key, feature_keys, plans, feats) ==
    LET plan == plans[Lower(membership_key)] IN
    [base_cost |-> plan.cost,
     features_cost |-> SumCosts(feature_keys, 1, feats),
     has_premium |-> \E i \in 1..Len(feature_keys) :
                        feats[feature_keys[i]].feature_type = PREMIUM]

Max(a, b) == IF a >= b THEN a ELSE b

\* variant: the surcharge is left out of the sum
UnclampedTotal_without_surcharge(subtotal, modifier_results) ==
    subtotal - modifier_results.group_discount
        - modifier_results.special_discount

\* the sum calculate_total_cost forms before it clamps
UnclampedTotal(subtotal, modifier_results) ==
    subtotal + modifier_results.premium_surcharge
        - modifier_results.group_discount
        - modifier_results.special_discount

\* variant: a failure reported with total 0
InvalidResult_zero_total(error) == [valid |-> FALSE, error |-> error, total |-> 0]

\* the dict returned on a validation failure
InvalidResult(error) == [valid |-> FALSE, error |-> error, total |-> -1]

\* variant: the dict of the call before is updated and used again
NewContext_reused(previous, subtotal, group_size, has_premium) ==
    Put(Put(Put(previous, "subtotal", subtotal), "group_size", group_size),
        "has_premium_features", has_premium)

\* context = {...}: a dict made new in every call.  previous is the dict the
\* call before built; no name of the method refers to it.
NewContext(previous, subtotal, group_size, has_premium) ==
    [subtotal |-> subtotal, group_size |-> group_size,
     has_premium_features |-> has_premium]

\* calculate_total_cost: the dict it returns, and the context dict it built
\* (built |-> FALSE when it returned before building one).  previous is the
\* context dict that the call before on the same system built.
calculate_total_cost(previous, membership_key, feature_keys, group_size, plans, feats) ==
    LET m == validate_membership(membership_key, plans) IN
    IF ~m.ok
    THEN [result |-> InvalidResult(m.error), built |-> FALSE, context |-> <<>>]
    ELSE
    LET f == validate_features(feature_keys, feats) IN
    IF ~f.ok
    THEN [result |-> InvalidResult(f.error), built |-> FALSE, context |-> <<>>]
    ELSE
    LET valid_features == f.valid_keys
        c == calculate_base_costs(membership_key, valid_features, plans, feats)
        subtotal == c.base_cost + c.features_cost
        ctx0 == NewContext(previous, subtotal, group_size, c.has_premium)
        a == apply_all(modifier_chain, ctx0)
        modifier_results == a.results
        total == UnclampedTotal(subtotal, modifier_results)
        plan == plans[Lower(membership_key)]
    IN [result |->
            [valid |-> TRUE,
             base_cost |-> c.base_cost,
             features_cost |-> c.features_cost,
             subtotal |-> subtotal,
             premium_surcharge |-> modifier_results.premium_surcharge,
             premium_msg |-> modifier_results.premium_msg,
             group_discount |-> modifier_results.group_discount,
             group_msg |-> modifier_results.group_msg,
             special_discount |-> modifier_results.special_discount,
             special_msg |-> modifier_results.special_msg,
             total |-> Max(0, total),
             membership_name |-> plan.name,
             selected_features |->
                 [i \in 1..Len(valid_features) |-> feats[valid_features[i]].name]],
        built |-> TRUE,
        context |-> a.context]

\* variant: the confirmation is not looked at
process_membership_unconfirmed(previous, membership_key, feature_keys, group_size, confirmed, plans, feats) ==
    LET result == calculate_total_cost(previous, membership_key, feature_keys,
                                       group_size, plans, feats).result
    IN IF result.valid THEN result.total ELSE -1

process_membership(previous, membership_key, feature_keys, group_size, confirmed, plans, feats) ==
    IF ~confirmed THEN -1
    ELSE LET result == calculate_total_cost(previous, membership_key, feature_keys,
                                            group_size, plans, feats).result
         IN IF result.valid THEN result.total ELSE -1

---------------------------------------------------------------------------
(* The callers' inputs *)

\* the upper-case letter of each lower-case letter
UpperTable ==
    [c \in {LowerCaseLetters[i] : i \in 1..26} |->
        UpperCaseLetters[CHOOSE i \in 1..26 : LowerCaseLetters[i] = c]]

UpperChar(c) == IF c \in DOMAIN UpperTable THEN UpperTable[c] ELSE c

\* the key in capitals
Upper(s) == [i \in 1..Len(s) |-> UpperChar(s[i])]

\* keys of no catalog record (the tests' "invalid" and "invalid_feature")
K_invalid == <<"i", "n", "v", "a", "l", "i", "d">>
K_invalid_feature ==
    <<"i", "n", "v", "a", "l", "i", "d", "_",
      "f", "e", "a", "t", "u", "r", "e">>

\* membership keys a caller passes: every plan key, one in capitals, and an
\* unknown key
MembershipInputs == PlanKeys \cup {Upper(K_basic), K_invalid}

\* feature keys a caller passes: every feature key, one in capitals, and an
\* unknown key
FeatureInputs ==
    FeatureKeys \cup {Upper(K_personal_training), K_invalid_feature}

\* sequences over S of length at most n
SeqsUpTo(S, n) == UNION {[1..m -> S] : m \in 0..n}

\* group sizes a caller passes: one member, the smallest group, a large group
GroupSizes == {1, 2, 100}

\* longer selections whose cost lands exactly on the upper offer threshold:
\* with the Family plan 150 + 3*60 + 30 + 40, with the Premium plan 100 + 5*60
ThresholdSelections ==
    {<<K_personal_training, K_personal_training, K_personal_training,
       K_group_classes, K_nutrition_plan>>,
     <<K_personal_training, K_personal_training, K_personal_training,
       K_personal_training, K_personal_training>>}

Requests ==
    [membership_key : MembershipInputs,
     feature_keys : SeqsUpTo(FeatureInputs, MaxFeatures) \cup ThresholdSelections,
     group_size : GroupSizes]

\* the records whose availability flag is switched from outside (the ones
\* the tests switch)
SwitchedPlans == {K_basic}
SwitchedFeatures == {K_personal_training}

---------------------------------------------------------------------------
(* The system *)

\* GymMembershipSystem(): the shipped catalog, every record available; the
\* caller holds the arguments of its calls
Init ==
    /\ membership_plans = MembershipFactory_create_all
    /\ features = FeatureFactory_create_all
    /\ req \in Requests
    /\ res = [op |-> "init"]
    /\ context = <<>>
    /\ earlier = [op |-> "init"]

\* plan.available = flag, set from outside the core on a record of the catalog
SetPlanAvailable(k, flag) ==
    /\ membership_plans[k].available # flag
    /\ membership_plans' = [membership_plans EXCEPT ![k].available = flag]
    /\ res' = [op |-> "set_available"]
    /\ UNCHANGED <<features, req, context>>

\* feature.available = flag, set from outside the core
SetFeatureAvailable(k, flag) ==
    /\ features[k].available # flag
    /\ features' = [features EXCEPT ![k].available = flag]
    /\ res' = [op |-> "set_available"]
    /\ UNCHANGED <<membership_plans, req, context>>

ValidateMembership ==
    /\ res' = [op |-> "validate_membership",
               ret |-> validate_membership(req.membership_key, membership_plans)]
    /\ UNCHANGED <<membership_plans, features, req, context>>

ValidateFeatures ==
    /\ res' = [op |-> "validate_features",
               ret |-> validate_features(req.feature_keys, features)]
    /\ UNCHANGED <<membership_plans, features, req, context>>

CalculateTotalCost ==
    LET c == calculate_total_cost(context, req.membership_key, req.feature_keys,
                                  req.group_size, membership_plans, features)
    IN /\ res' = [op |-> "calculate_total_cost", ret |-> c.result]
       /\ context' = IF c.built THEN c.context ELSE context
       /\ UNCHANGED <<membership_plans, features, req>>

\* variant: a confirmed sale takes the plan off the catalog's offer
ProcessMembership_closing_plan(confirmed) ==
    LET ret == process_membership(context, req.membership_key,
                   req.feature_keys, req.group_size, confirmed,
                   membership_plans, features)
    IN /\ res' = [op |-> "process_membership", confirmed |-> confirmed,
                  ret |-> ret]
       /\ membership_plans' =
             IF ret >= 0
             THEN [membership_plans EXCEPT
                      ![Lower(req.membership_key)].available = FALSE]
             ELSE membership_plans
       /\ context' =
             IF ret >= 0
             THEN calculate_total_cost(context, req.membership_key,
                      req.feature_keys, req.group_size,
                      membership_plans, features).context
             ELSE context
       /\ UNCHANGED <<features, req>>

ProcessMembership(confirmed) ==
    /\ res' = [op |-> "process_membership", confirmed |-> confirmed,
               ret |-> process_membership(context, req.membership_key,
                           req.feature_keys, req.group_size, confirmed,
                           membership_plans, features)]
    /\ context' =
          IF confirmed
          THEN LET c == calculate_total_cost(context, req.membership_key,
                            req.feature_keys, req.group_size,
                            membership_plans, features)
               IN IF c.built THEN c.context ELSE context
          ELSE context
    /\ UNCHANGED <<membership_plans, features, req>>

\* one caller, one request, in any order and any number of times
Next ==
    \/ \E k \in SwitchedPlans, flag \in BOOLEAN :
          SetPlanAvailable(k, flag) /\ UNCHANGED earlier
    \/ \E k \in SwitchedFeatures, flag \in BOOLEAN :
          SetFeatureAvailable(k, flag) /\ UNCHANGED earlier
    \/ ValidateMembership /\ UNCHANGED earlier
    \/ ValidateFeatures /\ UNCHANGED earlier
    \/ CalculateTotalCost /\ UNCHANGED earlier
    \/ \E confirmed \in BOOLEAN :
          ProcessMembership(confirmed) /\ UNCHANGED earlier

Spec == Init /\ [][Next]_vars

---------------------------------------------------------------------------
(* One system serving one request after another: the caller changes its
   arguments between calls, and the call before the last is kept in earlier *)

SessionMemberships == {K_basic, K_family}
SessionFeatureLists == {<<>>, <<K_personal_training>>, <<K_spa_access>>}
SessionGroupSizes == {2}

SessionRequests ==
    [membership_key : SessionMemberships,
     feature_keys : SessionFeatureLists,
     group_size : SessionGroupSizes]

CallOps ==
    {"validate_membership", "validate_features", "calculate_total_cost",
     "process_membership"}

\* the caller takes up other arguments for its next calls
NewRequest(r) ==
    /\ r # req
    /\ req' = r
    /\ res' = [op |-> "new_request"]
    /\ UNCHANGED <<membership_plans, features, context>>

\* the call in res, if the step before was one, becomes the earlier call
Remember ==
    earlier' = IF res.op \in CallOps
               THEN [op |-> res.op, req |-> req, ret |-> res.ret]
               ELSE earlier

SessionInit ==
    /\ membership_plans = MembershipFactory_create_all
    /\ features = FeatureFactory_create_all
    /\ req \in SessionRequests
    /\ res = [op |-> "init"]
    /\ context = <<>>
    /\ earlier = [op |-> "init"]

SessionNext ==
    \/ \E k \in SwitchedPlans, flag \in BOOLEAN :
          SetPlanAvailable(k, flag) /\ Remember
    \/ \E k \in SwitchedFeatures, flag \in BOOLEAN :
          SetFeatureAvailable(k, flag) /\ Remember
    \/ \E r \in SessionRequests : NewRequest(r) /\ Remember
    \/ ValidateMembership /\ Remember
    \/ ValidateFeatures /\ Remember
    \/ CalculateTotalCost /\ Remember
    \/ \E confirmed \in BOOLEAN : ProcessMembership(confirmed) /\ Remember

SpecSession == SessionInit /\ [][SessionNext]_vars

---------------------------------------------------------------------------
(* The chain by itself: apply_all on any context dict a caller passes *)

ChainContexts ==
    [subtotal : 0..MaxSubtotal,
     group_size : GroupSizes,
     has_premium_features : BOOLEAN]

\* a chain in the order of the system, and a caller holding a context dict
ChainInit ==
    /\ membership_plans = MembershipFactory_create_all
    /\ features = FeatureFactory_create_all
    /\ req \in ChainContexts
    /\ res = [op |-> "init"]
    /\ context = <<>>
    /\ earlier = [op |-> "init"]

\* results = chain.apply_all(context), which writes into the dict passed
ApplyAll ==
    LET a == apply_all(modifier_chain, req)
    IN /\ res' = [op |-> "apply_all", ret |-> a.results]
       /\ context' = a.context
       /\ UNCHANGED <<membership_plans, features, req, earlier>>

ChainNext == ApplyAll

SpecChain == ChainInit /\ [][ChainNext]_vars

---------------------------------------------------------------------------
(* A system whose registries hold records of other costs: cost is an int
   field of the record, and the costs of one plan, one standard feature and
   one premium feature are drawn *)

CostChoices == {0, 1, 6, 7, 9, 10, 200, 201, 400, 401}

AnyCatalogRequests ==
    [membership_key : {K_basic},
     feature_keys : {<<>>, <<K_personal_training>>, <<K_spa_access>>,
                     <<K_personal_training, K_spa_access>>},
     group_size : GroupSizes]

AnyCatalogInit ==
    /\ membership_plans \in
          {[MembershipFactory_create_all EXCEPT ![K_basic].cost = c] :
              c \in CostChoices}
    /\ features \in
          {[FeatureFactory_create_all EXCEPT
               ![K_personal_training].cost = a, ![K_spa_access].cost = b] :
              a \in CostChoices, b \in CostChoices}
    /\ req \in AnyCatalogRequests
    /\ res = [op |-> "init"]
    /\ context = <<>>
    /\ earlier = [op |-> "init"]

AnyCatalogNext == CalculateTotalCost /\ UNCHANGED earlier

SpecAnyCatalog == AnyCatalogInit /\ [][AnyCatalogNext]_vars

---------------------------------------------------------------------------
(* The shipped catalog and longer selections: every plan, every feature list
   of up to MaxListed entries written in the order of the catalog (the order
   of a list changes neither its cost nor whether it has a premium feature),
   every group size; personal_training is switched off and on from outside *)

\* the places 1..6 of the catalog's features, in lists that never step back
ListedPlaces ==
    {s \in SeqsUpTo(1..Len(FeatureKeyOrder), MaxListed) :
        \A i \in 1..(Len(s) - 1) : s[i] <= s[i + 1]}

ListedSelections ==
    {[i \in 1..Len(s) |-> FeatureKeyOrder[s[i]]] : s \in ListedPlaces}

ListedRequests ==
    [membership_key : PlanKeys,
     feature_keys : ListedSelections,
     group_size : GroupSizes]

ListedInit ==
    /\ membership_plans = MembershipFactory_create_all
    /\ features = FeatureFactory_create_all
    /\ req \in ListedRequests
    /\ res = [op |-> "init"]
    /\ context = <<>>
    /\ earlier = [op |-> "init"]

ListedNext ==
    \/ \E k \in SwitchedFeatures, flag \in BOOLEAN :
          SetFeatureAvailable(k, flag) /\ UNCHANGED earlier
    \/ CalculateTotalCost /\ UNCHANGED earlier

SpecListed == ListedInit /\ [][ListedNext]_vars

---------------------------------------------------------------------------
(* What the claims speak of, read off the state: the step just taken was a
   call, on req, against the catalog as it now stands (no call writes it) *)

Called(op) == res.op = op

\* the plan key, lowercased, names an available plan of the catalog
PlanAccepted(k) ==
    /\ Lower(k) \in DOMAIN membership_plans
    /\ membership_plans[Lower(k)].available

\* the feature key, lowercased, names an available feature of the catalog
FeatureAccepted(k) ==
    /\ Lower(k) \in DOMAIN features
    /\ features[Lower(k)].available

AllFeaturesAccepted ==
    \A i \in 1..Len(req.feature_keys) : FeatureAccepted(req.feature_keys[i])

\* the result of a pricing call that succeeded
Priced == Called("calculate_total_cost") /\ res.ret.valid

\* C1: for an available plan, a list of available features (duplicates
\* allowed) and a group size >= 1, calculate_total_cost returns valid = true
\* with total >= 0; no valid result has a negative total.
C1_TotalNonNegative ==
    Called("calculate_total_cost") =>
        /\ (PlanAccepted(req.membership_key) /\ AllFeaturesAccepted
               /\ req.group_size >= 1)
              => (res.ret.valid /\ res.ret.total >= 0)
        /\ res.ret.valid => res.ret.total >= 0

\* a valid selection with a duplicated feature, priced for a group with both
\* discounts taken off
C1_Witness ==
    /\ Priced
    /\ Len(req.feature_keys) = 2
    /\ req.feature_keys[1] = req.feature_keys[2]
    /\ req.group_size >= 2
    /\ res.ret.group_discount > 0
    /\ res.ret.special_discount > 0
    /\ res.ret.total >= 0

\* C2: with a membership key that is absent from the plan registry or names
\* an unavailable plan, calculate_total_cost returns exactly valid = false,
\* total = -1 and the membership validator's error (not None): the feature
\* list is not validated, no cost or modifier field is in the result, and no
\* context is built or passed through the chain.
C2_InvalidMembershipShortCircuits ==
    [][(Called("calculate_total_cost")' /\ ~PlanAccepted(req.membership_key)')
          => /\ DOMAIN res'.ret = {"valid", "error", "total"}
             /\ res'.ret.valid = FALSE
             /\ res'.ret.total = -1
             /\ res'.ret.error # None
             /\ res'.ret.error =
                   validate_membership(req.membership_key, membership_plans).error
             /\ context' = context]_vars

\* a pricing call rejected for its membership key although an earlier call
\* with the plan available had built a context; the feature list holds a bad
\* key too
C2_Witness ==
    /\ Called("calculate_total_cost")
    /\ ~PlanAccepted(req.membership_key)
    /\ ~AllFeaturesAccepted
    /\ ~res.ret.valid
    /\ context # <<>>

\* C3: a feature list with at least one key that is absent from the feature
\* registry or names an unavailable feature makes validate_features return
\* (false, an error, the empty list) wherever the bad key stands, and makes
\* calculate_total_cost return valid = false with total = -1.
C3_FeatureListAllOrNothing ==
    ~AllFeaturesAccepted =>
        /\ Called("validate_features") =>
              /\ res.ret.ok = FALSE
              /\ res.ret.error # None
              /\ res.ret.valid_keys = <<>>
        /\ Called("calculate_total_cost") =>
              /\ res.ret.valid = FALSE
              /\ res.ret.total = -1

\* validate_features on a list whose first key is valid and whose second key
\* is not
C3_Witness ==
    /\ Called("validate_features")
    /\ Len(req.feature_keys) = 2
    /\ FeatureAccepted(req.feature_keys[1])
    /\ ~FeatureAccepted(req.feature_keys[2])
    /\ res.ret.valid_keys = <<>>

\* the three outcomes of a single-key validation
Succeeded(r) == r.ok = TRUE /\ r.error = None
FailedNotFound(r) == r.ok = FALSE /\ r.error.kind = "NotFound"
FailedUnavailable(r) == r.ok = FALSE /\ r.error.kind = "Unavailable"

\* C4: a single-key validation, of a membership key or of a feature key
\* (validate_features on a one-key list), succeeds with (true, None) iff the
\* lowercased key is in the registry and its record is available; it fails
\* with the NotFound error when the lowercased key is absent and with the
\* Unavailable error when the key is present and the flag is false: exactly
\* one of the three outcomes for every key.
C4_SingleKeyValidation ==
    /\ Called("validate_membership") =>
          LET key == Lower(req.membership_key)
              r == res.ret
          IN /\ Succeeded(r) <=>
                    (key \in DOMAIN membership_plans
                        /\ membership_plans[key].available)
             /\ FailedNotFound(r) <=> key \notin DOMAIN membership_plans
             /\ FailedUnavailable(r) <=>
                    (key \in DOMAIN membership_plans
                        /\ ~membership_plans[key].available)
             /\ FailedNotFound(r) => r.error = InvalidMembershipError(
                    req.membership_key, PlanKeyOrder)
             /\ FailedUnavailable(r) => r.error.name = membership_plans[key].name
    /\ (Called("validate_features") /\ Len(req.feature_keys) = 1) =>
          LET key == Lower(req.feature_keys[1])
              r == res.ret
          IN /\ Succeeded(r) <=>
                    (key \in DOMAIN features /\ features[key].available)
             /\ FailedNotFound(r) <=> key \notin DOMAIN features
             /\ FailedUnavailable(r) <=>
                    (key \in DOMAIN features /\ ~features[key].available)
             /\ FailedUnavailable(r) => r.error.name = features[key].name

\* a membership key written in capitals whose plan is in the registry and
\* switched off: rejected as unavailable, not as unknown
C4_Witness ==
    /\ Called("validate_membership")
    /\ Lower(req.membership_key) \in DOMAIN membership_plans
    /\ ~membership_plans[Lower(req.membership_key)].available
    /\ FailedUnavailable(res.ret)

\* the request with every key lowercased
LowercasedKeys(keys) == [i \in 1..Len(keys) |-> Lower(keys[i])]

\* C5: keys are case-insensitive: validate_membership(k) agrees with
\* validate_membership(k.lower()), and calculate_total_cost returns the same
\* validity and the same total as for the lowercased membership key and the
\* lowercased feature keys.
C5_CaseInsensitiveKeys ==
    /\ Called("validate_membership") =>
          res.ret.ok = validate_membership(Lower(req.membership_key),
                                           membership_plans).ok
    /\ Called("calculate_total_cost") =>
          LET low == calculate_total_cost(<<>>, Lower(req.membership_key),
                         LowercasedKeys(req.feature_keys), req.group_size,
                         membership_plans, features).result
          IN /\ res.ret.valid = low.valid
             /\ res.ret.total = low.total

\* a selection priced with the plan key and a feature key in capitals
C5_Witness ==
    /\ Priced
    /\ req.membership_key = Upper(K_basic)
    /\ Len(req.feature_keys) = 2
    /\ req.feature_keys[2] = Upper(K_personal_training)
    /\ res.ret.total > 0

\* a selected feature is of class premium
SelectedPremium ==
    \E i \in 1..Len(req.feature_keys) :
        features[Lower(req.feature_keys[i])].feature_type = PREMIUM

\* C6: in every valid result, premium_surcharge = floor(15% of subtotal)
\* when a selected feature is premium (subtotal 130 gives 19), and 0 when no
\* selected feature is premium.
C6_PremiumSurcharge ==
    Priced =>
        res.ret.premium_surcharge =
            IF SelectedPremium THEN (15 * res.ret.subtotal) \div 100 ELSE 0

\* basic + exclusive_facilities: subtotal 130, where the 15% is 19.5
C6_Witness ==
    /\ Priced
    /\ SelectedPremium
    /\ res.ret.subtotal = 130
    /\ res.ret.premium_surcharge = 19

\* the request priced for another group size
GroupDiscountFor(n) ==
    calculate_total_cost(<<>>, req.membership_key, req.feature_keys, n,
                         membership_plans, features).result.group_discount

\* C7: in every valid result, group_discount = floor(10% of (subtotal +
\* premium_surcharge)) when group_size >= 2 and 0 when group_size = 1; it is
\* the same for every group size of 2 or more.
C7_GroupDiscount ==
    Priced =>
        /\ res.ret.group_discount =
              IF req.group_size >= 2
              THEN (10 * (res.ret.subtotal + res.ret.premium_surcharge)) \div 100
              ELSE 0
        /\ req.group_size >= 2 =>
              \A n \in {m \in GroupSizes : m >= 2} :
                  res.ret.group_discount = GroupDiscountFor(n)

\* a group of 100 with a premium feature: the discount is taken on the
\* surcharge-inclusive cost
C7_Witness ==
    /\ Priced
    /\ req.group_size = 100
    /\ res.ret.premium_surcharge > 0
    /\ res.ret.group_discount > res.ret.subtotal \div 10

\* the cost the special offer is decided on
OfferBase == res.ret.subtotal + res.ret.premium_surcharge

\* C8: in every valid result, with base = subtotal + premium_surcharge,
\* special_discount is 50 if base > 400, 20 if 200 < base <= 400 and 0 if
\* base <= 200 (a base of exactly 200 gives 0, of exactly 400 gives 20); a
\* raw subtotal at or below a threshold whose surcharge-inclusive base exceeds
\* it gets the higher tier.
C8_SpecialOfferTiers ==
    Priced =>
        res.ret.special_discount =
            IF OfferBase > 400 THEN 50
            ELSE IF OfferBase > 200 THEN 20
            ELSE 0

\* a base of exactly 400, which stays in the 20 tier
C8_Witness ==
    /\ Priced
    /\ OfferBase = 400
    /\ res.ret.special_discount = 20

\* a base of exactly 200, which gets no discount
C8_WitnessAt200 ==
    /\ Priced
    /\ OfferBase = 200
    /\ res.ret.special_discount = 0

\* raw subtotals of at most 200 and at most 400 that the surcharge lifts
\* over the threshold
C8_WitnessLiftedOver200 ==
    /\ Priced
    /\ res.ret.subtotal <= 200
    /\ res.ret.special_discount = 20

C8_WitnessLiftedOver400 ==
    /\ Priced
    /\ res.ret.subtotal <= 400
    /\ res.ret.special_discount = 50

\* C9: in every valid result, subtotal = base_cost + features_cost and
\* total = max(0, subtotal + premium_surcharge - group_discount -
\* special_discount), with the amounts the same result reports.
C9_TotalFormula ==
    Priced =>
        LET r == res.ret
            sum == r.subtotal + r.premium_surcharge - r.group_discount
                       - r.special_discount
        IN /\ r.subtotal = r.base_cost + r.features_cost
           /\ r.total = IF sum > 0 THEN sum ELSE 0

\* a result in which a surcharge and both discounts enter the total
C9_Witness ==
    /\ Priced
    /\ res.ret.features_cost > 0
    /\ res.ret.premium_surcharge > 0
    /\ res.ret.group_discount > 0
    /\ res.ret.special_discount > 0

\* C10: process_membership returns -1 whenever confirmed is false; when
\* confirmed is true it returns the total calculate_total_cost gives for the
\* same arguments if that result is valid, and -1 otherwise; the value is
\* always -1 or an integer >= 0.
C10_ProcessMembership ==
    Called("process_membership") =>
        LET r == calculate_total_cost(<<>>, req.membership_key, req.feature_keys,
                     req.group_size, membership_plans, features).result
        IN /\ ~res.confirmed => res.ret = -1
           /\ res.confirmed => res.ret = (IF r.valid THEN r.total ELSE -1)
           /\ res.ret = -1 \/ res.ret >= 0

\* a valid selection that is not confirmed
C10_Witness ==
    /\ Called("process_membership")
    /\ ~res.confirmed
    /\ PlanAccepted(req.membership_key)
    /\ AllFeaturesAccepted
    /\ res.ret = -1

\* a valid selection that is confirmed and priced
C10_WitnessConfirmed ==
    /\ Called("process_membership")
    /\ res.confirmed
    /\ res.ret > 0


---------------------------------------------------------------------------
(* C11 - C13: one call after another on the same system *)

\* the earlier call was the same call with the same arguments
SameCallEarlier == earlier.op = res.op /\ earlier.req = req

\* C11: availability is read anew by every call: whatever switches and calls
\* came before, a call of validate_membership, validate_features,
\* calculate_total_cost or process_membership succeeds exactly when, at the
\* time of that call, the plan and the features it looks at are in the
\* catalog and available.
C11_AvailabilityNotCached ==
    [][/\ res'.op = "validate_membership" =>
            (res'.ret.ok <=> PlanAccepted(req.membership_key))
       /\ res'.op = "validate_features" =>
            (res'.ret.ok <=> AllFeaturesAccepted)
       /\ res'.op = "calculate_total_cost" =>
            (res'.ret.valid <=>
                PlanAccepted(req.membership_key) /\ AllFeaturesAccepted)
       /\ (res'.op = "process_membership" /\ res'.confirmed) =>
            (res'.ret >= 0 <=>
                PlanAccepted(req.membership_key) /\ AllFeaturesAccepted)
      ]_vars

\* a plan accepted by an earlier call is switched off and rejected by the
\* next call with the same arguments
C11_Witness ==
    /\ Called("validate_membership")
    /\ SameCallEarlier
    /\ earlier.ret.ok
    /\ ~res.ret.ok
    /\ res.ret.error.kind = "Unavailable"

\* a plan rejected as unavailable is switched on again and priced by the
\* next call with the same arguments
C11_WitnessRestored ==
    /\ Called("calculate_total_cost")
    /\ SameCallEarlier
    /\ ~earlier.ret.valid
    /\ earlier.ret.error.kind = "Unavailable"
    /\ res.ret.valid

\* C12: no call of the core writes the catalog: over a step of
\* validate_membership, validate_features, calculate_total_cost or
\* process_membership, whether it succeeds or fails, the set of plan keys and
\* feature keys and every record's name, cost, class and availability flag
\* stay as they were.
C12_CatalogNotWritten ==
    [][res'.op \in CallOps =>
          /\ DOMAIN membership_plans' = DOMAIN membership_plans
          /\ DOMAIN features' = DOMAIN features
          /\ \A k \in DOMAIN membership_plans :
                membership_plans'[k] = membership_plans[k]
          /\ \A k \in DOMAIN features : features'[k] = features[k]
      ]_vars

\* a confirmed sale, after which the catalog is the one that was built
C12_Witness ==
    /\ Called("process_membership")
    /\ res.confirmed
    /\ res.ret > 0
    /\ membership_plans = MembershipFactory_create_all
    /\ features = FeatureFactory_create_all

\* a pricing call that fails on a feature switched off, which stays off and
\* leaves every other record as built
C12_WitnessFailure ==
    /\ Called("calculate_total_cost")
    /\ ~res.ret.valid
    /\ res.ret.error.kind = "Unavailable"
    /\ membership_plans = MembershipFactory_create_all
    /\ features = [FeatureFactory_create_all EXCEPT
                      ![K_personal_training].available = FALSE]

\* C13: the pricing context lives for one call: after any earlier calls on
\* the same system, calculate_total_cost returns what a system that never
\* priced anything returns for the same arguments and the same catalog.  The
\* context it leaves holds subtotal_with_surcharge only if this call's own
\* selection has a premium feature, and a selection without one gets its
\* group discount and its special discount from its own raw subtotal.
C13_ContextPerCall ==
    Called("calculate_total_cost") =>
        /\ res.ret = calculate_total_cost(<<>>, req.membership_key,
                          req.feature_keys, req.group_size,
                          membership_plans, features).result
        /\ res.ret.valid =>
              /\ "subtotal_with_surcharge" \in DOMAIN context <=> SelectedPremium
              /\ context.subtotal = res.ret.subtotal
              /\ ~SelectedPremium =>
                    /\ res.ret.premium_surcharge = 0
                    /\ res.ret.group_discount =
                          (IF req.group_size >= 2
                           THEN (res.ret.subtotal * 10) \div 100 ELSE 0)
                    /\ res.ret.special_discount =
                          (IF res.ret.subtotal > 400 THEN 50
                           ELSE IF res.ret.subtotal > 200 THEN 20 ELSE 0)

\* a selection without a premium feature, discounted for a group and by the
\* special offer, priced after a call that charged a premium surcharge
C13_Witness ==
    /\ Priced
    /\ earlier.op = "calculate_total_cost"
    /\ earlier.ret.valid
    /\ earlier.ret.premium_surcharge > 0
    /\ earlier.ret.subtotal + earlier.ret.premium_surcharge > res.ret.subtotal
    /\ ~SelectedPremium
    /\ res.ret.group_discount > 0
    /\ res.ret.special_discount > 0

---------------------------------------------------------------------------
(* C14 - C17: the feature list *)

\* C14: when every requested feature key is accepted, validate_features
\* succeeds without an error and its list is the input list with each key
\* lowercased: same length, same order, duplicates kept; and
\* selected_features of a valid pricing result are the display names of
\* those keys, in the same order.
C14_AcceptedListIsInputLowercased ==
    /\ (Called("validate_features") /\ AllFeaturesAccepted) =>
          /\ res.ret.ok
          /\ res.ret.error = None
          /\ Len(res.ret.valid_keys) = Len(req.feature_keys)
          /\ \A i \in 1..Len(req.feature_keys) :
                res.ret.valid_keys[i] = Lower(req.feature_keys[i])
    /\ Priced =>
          /\ Len(res.ret.selected_features) = Len(req.feature_keys)
          /\ \A i \in 1..Len(req.feature_keys) :
                res.ret.selected_features[i] =
                    features[Lower(req.feature_keys[i])].name

\* the same feature asked for twice, once in capitals: two equal keys come back
C14_Witness ==
    /\ Called("validate_features")
    /\ res.ret.ok
    /\ Len(req.feature_keys) = 2
    /\ req.feature_keys[1] # req.feature_keys[2]
    /\ res.ret.valid_keys = <<K_personal_training, K_personal_training>>

\* two features priced, named in the order they were asked for
C14_WitnessNames ==
    /\ Priced
    /\ req.feature_keys = <<K_spa_access, K_group_classes>>
    /\ res.ret.selected_features =
           <<FeatureFactory_create_all[K_spa_access].name,
             FeatureFactory_create_all[K_group_classes].name>>

\* how many entries of the request name the feature k
TimesAsked(k) ==
    Cardinality({i \in 1..Len(req.feature_keys) : Lower(req.feature_keys[i]) = k})

RECURSIVE CostByKey(_)
\* each feature of the catalog, from the n-th on, times the entries naming it
CostByKey(n) ==
    IF n > Len(FeatureKeyOrder) THEN 0
    ELSE features[FeatureKeyOrder[n]].cost * TimesAsked(FeatureKeyOrder[n])
         + CostByKey(n + 1)

\* C15: features_cost of a valid result is the sum of the costs of the
\* entries of the feature list: it depends on how often each feature is
\* named and not on the order, a feature named k times counts k times, and
\* an empty list gives 0.
C15_FeaturesCostIsSum ==
    Priced =>
        /\ res.ret.features_cost = CostByKey(1)
        /\ Len(req.feature_keys) = 0 => res.ret.features_cost = 0

\* a feature named twice is counted twice
C15_Witness ==
    /\ Priced
    /\ TimesAsked(K_spa_access) = 2
    /\ res.ret.features_cost = 2 * FeatureFactory_create_all[K_spa_access].cost

\* no feature asked for
C15_WitnessEmpty ==
    /\ Priced
    /\ req.feature_keys = <<>>
    /\ res.ret.features_cost = 0

---------------------------------------------------------------------------
(* C16: the order of the chain *)

\* the same three modifiers in another order
GroupFirstChain == <<GroupDiscount, PremiumSurcharge, SpecialOffer>>
SpecialFirstChain == <<SpecialOffer, PremiumSurcharge, GroupDiscount>>

\* what a chain of the given order returns for the priced selection
Reordered(chain) ==
    apply_all(chain, NewContext(<<>>, res.ret.subtotal, req.group_size,
                                SelectedPremium)).results

\* the total calculate_total_cost forms from a chain's results
TotalWith(results) == Max(0, UnclampedTotal(res.ret.subtotal, results))

\* the raw subtotal is in a lower tier of the special offer than the
\* surcharged one
SurchargeLiftsTier ==
    \/ res.ret.subtotal <= 200 /\ OfferBase > 200
    \/ res.ret.subtotal <= 400 /\ OfferBase > 400

\* C16: the order surcharge, group, special matters.  For every valid
\* selection with a premium feature and a group of 2 or more, a chain that
\* runs the group discount before the surcharge returns another group
\* discount and another total than the chain of the system; and for every
\* valid selection whose surcharge lifts it over a threshold, a chain that
\* runs the special offer before the surcharge returns another special
\* discount and another total.  Such selections exist (the witnesses).
C16_ChainOrderMatters ==
    /\ (Priced /\ SelectedPremium /\ req.group_size >= 2) =>
          /\ Reordered(GroupFirstChain).group_discount # res.ret.group_discount
          /\ TotalWith(Reordered(GroupFirstChain)) # res.ret.total
    /\ (Priced /\ SelectedPremium /\ SurchargeLiftsTier) =>
          /\ Reordered(SpecialFirstChain).special_discount
                # res.ret.special_discount
          /\ TotalWith(Reordered(SpecialFirstChain)) # res.ret.total

\* basic + spa_access for two: 13 off 138 in the system's order, 12 off 120
\* with the group discount first
C16_Witness ==
    /\ Priced
    /\ SelectedPremium
    /\ req.group_size = 2
    /\ res.ret.subtotal = 120
    /\ res.ret.group_discount = 13
    /\ Reordered(GroupFirstChain).group_discount = 12
    /\ TotalWith(Reordered(GroupFirstChain)) = res.ret.total + 1

\* premium + exclusive_facilities for two: 180 lifted to 207 gets the offer
\* of 20, which a special offer run first does not give
C16_WitnessSpecialFirst ==
    /\ Priced
    /\ SelectedPremium
    /\ req.group_size = 2
    /\ res.ret.subtotal = 180
    /\ res.ret.special_discount = 20
    /\ Reordered(SpecialFirstChain).special_discount = 0
    /\ TotalWith(Reordered(SpecialFirstChain)) = res.ret.total + 20

---------------------------------------------------------------------------
(* C17: which error is reported *)

\* the place in the request of the first feature key that is not accepted
FirstRejected ==
    CHOOSE i \in 1..Len(req.feature_keys) :
        /\ ~FeatureAccepted(req.feature_keys[i])
        /\ \A j \in 1..(i - 1) : FeatureAccepted(req.feature_keys[j])

\* the error of a feature key that is not accepted, taken by itself
ErrorOfFeature(k) ==
    IF Lower(k) \notin DOMAIN features
    THEN InvalidFeatureError(k)
    ELSE FeatureUnavailableError(features[Lower(k)].name)

\* the error of a membership key that is not accepted
ErrorOfPlan(k) ==
    IF Lower(k) \notin DOMAIN membership_plans
    THEN InvalidMembershipError(k, registry_keys(membership_plans, PlanKeyOrder))
    ELSE MembershipUnavailableError(membership_plans[Lower(k)].name)

\* C17: the error reported is that of the first failing check, the
\* membership key before the feature keys and the feature keys in the order
\* of the request: calculate_total_cost on a rejected membership key
\* returns the membership error whatever the features are; with the
\* membership accepted, and in validate_features, the error is the one of the
\* earliest rejected feature key, whatever comes after it.
C17_FirstFailureReported ==
    /\ (Called("calculate_total_cost") /\ ~PlanAccepted(req.membership_key)) =>
          /\ ~res.ret.valid
          /\ res.ret.error = ErrorOfPlan(req.membership_key)
    /\ (Called("calculate_total_cost") /\ PlanAccepted(req.membership_key)
            /\ ~AllFeaturesAccepted) =>
          /\ ~res.ret.valid
          /\ res.ret.error = ErrorOfFeature(req.feature_keys[FirstRejected])
    /\ (Called("validate_features") /\ ~AllFeaturesAccepted) =>
          /\ ~res.ret.ok
          /\ res.ret.error = ErrorOfFeature(req.feature_keys[FirstRejected])

\* two rejected feature keys with different errors: the first one's is returned
C17_Witness ==
    /\ Called("validate_features")
    /\ Len(req.feature_keys) = 2
    /\ ~FeatureAccepted(req.feature_keys[1])
    /\ ~FeatureAccepted(req.feature_keys[2])
    /\ ErrorOfFeature(req.feature_keys[1]) # ErrorOfFeature(req.feature_keys[2])
    /\ res.ret.error = ErrorOfFeature(req.feature_keys[1])

\* a rejected membership key and a rejected feature key: the membership error
C17_WitnessMembershipFirst ==
    /\ Called("calculate_total_cost")
    /\ ~PlanAccepted(req.membership_key)
    /\ ~AllFeaturesAccepted
    /\ res.ret.error = ErrorOfPlan(req.membership_key)
    /\ res.ret.error # ErrorOfFeature(req.feature_keys[FirstRejected])

---------------------------------------------------------------------------
(* C18: modifiers that do not apply *)

\* the cost the special offer looks at, in a call of the chain by itself
ChainBase == req.subtotal + res.ret.premium_surcharge

\* C18: in every result of the chain, a modifier that does not apply (no
\* premium feature; group_size < 2; base <= 200) has amount 0 and the empty
\* message, and a modifier's message is non-empty exactly when the modifier
\* applies, also when the amount it computes is 0.
C18_NotApplicableIsZeroAndSilent ==
    Called("apply_all") =>
        /\ ~req.has_premium_features =>
              res.ret.premium_surcharge = 0 /\ res.ret.premium_msg = EmptyMsg
        /\ req.group_size < 2 =>
              res.ret.group_discount = 0 /\ res.ret.group_msg = EmptyMsg
        /\ ChainBase <= 200 =>
              res.ret.special_discount = 0 /\ res.ret.special_msg = EmptyMsg
        /\ res.ret.premium_msg.text # "" <=> req.has_premium_features
        /\ res.ret.group_msg.text # "" <=> req.group_size >= 2
        /\ res.ret.special_msg.text # "" <=> ChainBase > 200

\* a subtotal so small that the surcharge and the group discount come to 0,
\* each with its message
C18_Witness ==
    /\ Called("apply_all")
    /\ req.has_premium_features
    /\ req.group_size >= 2
    /\ req.subtotal > 0
    /\ res.ret.premium_surcharge = 0
    /\ res.ret.premium_msg.text # ""
    /\ res.ret.group_discount = 0
    /\ res.ret.group_msg.text # ""

\* no modifier applies: three amounts of 0 and three empty messages
C18_WitnessNoneApplies ==
    /\ Called("apply_all")
    /\ ~req.has_premium_features
    /\ req.group_size = 1
    /\ req.subtotal = 200
    /\ res.ret = InitialResults

---------------------------------------------------------------------------
(* C19: the clamp *)

\* the sum of a valid result before max(0, ...)
UnclampedSum ==
    res.ret.subtotal + res.ret.premium_surcharge
        - res.ret.group_discount - res.ret.special_discount

\* C19: whatever non-negative integer costs the catalog holds, for every
\* valid selection and group size the sum subtotal + premium_surcharge -
\* group_discount - special_discount is >= 0 already, so that the clamp
\* max(0, ...) leaves it as it is; and the total is > 0 whenever the subtotal
\* is > 0.
C19_ClampNeverActs ==
    Priced =>
        /\ res.ret.subtotal >= 0
        /\ UnclampedSum >= 0
        /\ res.ret.total = UnclampedSum
        /\ res.ret.subtotal > 0 => res.ret.total > 0

\* the smallest positive subtotal, with a premium feature and a group: both
\* percentages come to 0 and the total is 1
C19_Witness ==
    /\ Priced
    /\ res.ret.subtotal = 1
    /\ SelectedPremium
    /\ req.group_size >= 2
    /\ res.ret.total = 1

\* both discounts at their largest share: just over 200 for a group
C19_WitnessDiscounted ==
    /\ Priced
    /\ res.ret.subtotal = 201
    /\ res.ret.group_discount = 20
    /\ res.ret.special_discount = 20
    /\ res.ret.total = 161

---------------------------------------------------------------------------
(* C20: the two discounts *)

\* the special discount of the same plan and features for another group size
SpecialDiscountFor(n) ==
    calculate_total_cost(<<>>, req.membership_key, req.feature_keys, n,
                         membership_plans, features).result.special_discount

\* C20: the special offer is decided on the cost before the group discount:
\* for a plan and a feature list, special_discount is the same for every
\* group size and is the tier of subtotal + premium_surcharge, the group
\* discount is 10% of that same cost, and both are taken in full off
\* subtotal + premium_surcharge.
C20_SpecialOfferBeforeGroupDiscount ==
    Priced =>
        /\ \A n \in GroupSizes : SpecialDiscountFor(n) = res.ret.special_discount
        /\ res.ret.special_discount =
              (IF OfferBase > 400 THEN 50 ELSE IF OfferBase > 200 THEN 20 ELSE 0)
        /\ res.ret.group_discount =
              (IF req.group_size >= 2 THEN (OfferBase * 10) \div 100 ELSE 0)
        /\ res.ret.total =
              Max(0, OfferBase - res.ret.group_discount
                        - res.ret.special_discount)

\* family + personal_training for two: 210 less 21 is below the threshold
\* of 200, and the offer of 20 is given
C20_Witness ==
    /\ Priced
    /\ req.group_size = 2
    /\ OfferBase = 210
    /\ OfferBase - res.ret.group_discount <= 200
    /\ res.ret.special_discount = 20
    /\ res.ret.total = 169

---------------------------------------------------------------------------
(* C21: one more feature *)

\* the features of the catalog that are available
AvailableFeatures == {f \in FeatureKeys : features[f].available}

\* the total for the same plan and group and the list followed by f
TotalAfterAdding(f) ==
    calculate_total_cost(<<>>, req.membership_key, Append(req.feature_keys, f),
                         req.group_size, membership_plans, features).result.total

\* C21 as claimed: adding one more available feature to a valid selection
\* never lowers the price: the total for the list followed by f is >= the
\* total for the list.
C21_AddingNeverLowers ==
    Priced => \A f \in AvailableFeatures : TotalAfterAdding(f) >= res.ret.total

\* a group adds a feature of 30 to a selection without a premium feature,
\* which takes the cost from 400 or less to more than 400
GroupStepsOverUpperOffer(f) ==
    /\ req.group_size >= 2
    /\ ~SelectedPremium
    /\ features[f].feature_type = STANDARD
    /\ features[f].cost = 30
    /\ res.ret.subtotal <= 400
    /\ res.ret.subtotal + features[f].cost > 400

\* C21, amended: adding one more available feature to a valid selection
\* never lowers the price, except where a group of 2 or more adds
\* group_classes (30) to a selection without a premium feature whose cost
\* goes from 400 or less to more than 400: there the special offer rises
\* from 20 to 50, the cost after the group discount rises by 27, and the
\* total falls by 3.
C21_AddingLowersOnlyOverUpperOffer ==
    Priced =>
        \A f \in AvailableFeatures :
            IF GroupStepsOverUpperOffer(f)
            THEN /\ f = K_group_classes
                 /\ TotalAfterAdding(f) = res.ret.total - 3
            ELSE TotalAfterAdding(f) >= res.ret.total

\* family + personal_training four times for two: 390 costs 331, and with
\* group_classes 420 costs 328
C21_Witness ==
    /\ Priced
    /\ req.group_size = 2
    /\ res.ret.subtotal = 390
    /\ res.ret.total = 331
    /\ K_group_classes \in AvailableFeatures
    /\ GroupStepsOverUpperOffer(K_group_classes)
    /\ TotalAfterAdding(K_group_classes) = 328

\* the same step for one member: 370 before and 370 after, not lower
C21_WitnessSingle ==
    /\ Priced
    /\ req.group_size = 1
    /\ res.ret.subtotal = 390
    /\ res.ret.total = 370
    /\ TotalAfterAdding(K_group_classes) = 370

=============================================================================
